---- MODULE Spec2Model ----
(***************************************************************************)
(* Model of tailwind.config.js: the exported configuration object, the     *)
(* evaluation of the module (a load) and the static field accesses a       *)
(* consumer performs on the loaded value.                                  *)
(*                                                                         *)
(* A JavaScript object literal is a function from its keys to its values,  *)
(* built with :> and @@ so that its key set is what the literal lists.     *)
(* A JavaScript array is a sequence.  A color string is the sequence of    *)
(* its characters, so that its syntax can be examined.                     *)
(***************************************************************************)
EXTENDS Naturals, Sequences, FiniteSets, TLC

\* Number of times the configuration module is evaluated in one behaviour.
MaxLoads == 2

VARIABLES loaded, glob, selTheme, selRole, value

vars == <<loaded, glob, selTheme, selRole, value>>

----------------------------------------------------------------------------
\* content: [ ... ]
ContentExtraGlob ==
  << "./app/templates/**/*.html",
     "./app/static/**/*.js",
     "./app/static/**/*.css" >>

Content ==
  << "./app/templates/**/*.html",
     "./app/static/**/*.js" >>

\* theme: { extend: {} }      ({} is the function with the empty domain)
ThemeExtended == [extend |-> ("colors" :> "brand")]

Theme == [extend |-> <<>>]

\* plugins: [require("daisyui")]
Plugins == << "daisyui" >>

\* "brand-light": { ... }
BrandLight ==
     ("primary"           :> <<"#","0","E","2","A","3","0">>)
  @@ ("secondary"         :> <<"#","A","F","B","3","A","8">>)
  @@ ("accent"            :> <<"#","F","F","5","4","2","E">>)
  @@ ("neutral"           :> <<"#","0","2","0","F","1","3">>)
  @@ ("base-100"          :> <<"#","F","9","F","9","F","9">>)
  @@ ("base-200"          :> <<"#","D","6","D","F","E","0">>)
  @@ ("base-300"          :> <<"#","A","F","B","3","A","8">>)
  @@ ("primary-content"   :> <<"#","F","9","F","9","F","9">>)
  @@ ("secondary-content" :> <<"#","0","2","0","F","1","3">>)
  @@ ("accent-content"    :> <<"#","0","2","0","F","1","3">>)
  @@ ("neutral-content"   :> <<"#","F","9","F","9","F","9">>)
  @@ ("base-content"      :> <<"#","0","2","0","F","1","3">>)
  @@ ("info"              :> <<"#","3","A","8","F","B","7">>)
  @@ ("success"           :> <<"#","2","7","8","5","6","A">>)
  @@ ("warning"           :> <<"#","F","5","9","E","0","B">>)
  @@ ("error"             :> <<"#","D","C","2","6","2","6">>)

\* "brand-teal-surface": { ... }
BrandTealSurface ==
     ("primary"           :> <<"#","0","E","2","A","3","0">>)
  @@ ("secondary"         :> <<"#","A","F","B","3","A","8">>)
  @@ ("accent"            :> <<"#","F","F","5","4","2","E">>)
  @@ ("neutral"           :> <<"#","0","2","0","F","1","3">>)
  @@ ("base-100"          :> <<"#","0","E","2","A","3","0">>)
  @@ ("base-200"          :> <<"#","0","B","2","1","2","5">>)
  @@ ("base-300"          :> <<"#","0","8","1","9","1","C">>)
  @@ ("primary-content"   :> <<"#","F","9","F","9","F","9">>)
  @@ ("secondary-content" :> <<"#","0","2","0","F","1","3">>)
  @@ ("accent-content"    :> <<"#","0","2","0","F","1","3">>)
  @@ ("neutral-content"   :> <<"#","F","9","F","9","F","9">>)
  @@ ("base-content"      :> <<"#","F","9","F","9","F","9">>)
  @@ ("info"              :> <<"#","6","9","B","7","D","1">>)
  @@ ("success"           :> <<"#","3","5","A","3","8","7">>)
  @@ ("warning"           :> <<"#","F","D","B","A","7","4">>)
  @@ ("error"             :> <<"#","F","8","7","1","7","1">>)

\* An object literal with one property written differently.
WithProperty(obj, key, val) ==
  [k \in DOMAIN obj \cup {key} |-> IF k = key THEN val ELSE obj[k]]

\* An object literal with one property left out.
WithoutProperty(obj, key) ==
  [k \in DOMAIN obj \ {key} |-> obj[k]]

\* Slips of the pen in the themes array.
ThemesShortHex ==
  << "brand-light" :> BrandLight,
     "brand-teal-surface" :>
        WithProperty(BrandTealSurface, "base-200", <<"#","0","B","2","1","2">>) >>

ThemesMissingRole ==
  << "brand-light" :> BrandLight,
     "brand-teal-surface" :> WithoutProperty(BrandTealSurface, "base-content") >>

ThemesUnknownRole ==
  << "brand-light" :>
        WithProperty(BrandLight, "primary-focus", <<"#","0","B","2","1","2","5">>),
     "brand-teal-surface" :> BrandTealSurface >>

ThemesSameName ==
  << "brand-light" :> BrandLight,
     "brand-light" :> BrandTealSurface >>

ThemesLightSwapped ==
  << "brand-light" :>
        WithProperty(WithProperty(BrandLight, "primary", BrandLight["base-100"]),
                     "base-100", BrandLight["primary"]),
     "brand-teal-surface" :> BrandTealSurface >>

ThemesTealSurfaceOff ==
  << "brand-light" :> BrandLight,
     "brand-teal-surface" :>
        WithProperty(BrandTealSurface, "base-100", BrandTealSurface["base-200"]) >>

ThemesSameBaseContent ==
  << "brand-light" :> BrandLight,
     "brand-teal-surface" :>
        WithProperty(BrandTealSurface, "base-content", BrandLight["base-content"]) >>

\* daisyui: { themes: [ { "brand-light": {...} }, { "brand-teal-surface": {...} } ] }
Themes ==
  << "brand-light" :> BrandLight,
     "brand-teal-surface" :> BrandTealSurface >>

Daisyui == [themes |-> Themes]

\* export default { content, theme, plugins, daisyui }
Config ==
  [ content |-> Content,
    theme   |-> Theme,
    plugins |-> Plugins,
    daisyui |-> Daisyui ]

----------------------------------------------------------------------------
\* The value the consumer holds: the result of the most recent load.
Latest == loaded[Len(loaded)]

\* config.daisyui.themes[i][name]: the palette of the entry that has the name.
PaletteOf(c, name) ==
  LET i == CHOOSE j \in 1..Len(c.daisyui.themes) : name \in DOMAIN c.daisyui.themes[j]
  IN  c.daisyui.themes[i][name]

\* All theme names of a configuration.
ThemeNames(c) ==
  UNION { DOMAIN c.daisyui.themes[i] : i \in 1..Len(c.daisyui.themes) }

Init ==
  /\ loaded   = <<>>
  /\ glob     = ""
  /\ selTheme = ""
  /\ selRole  = ""
  /\ value    = <<>>

\* The module is evaluated: the export default expression yields the value.
Load ==
  /\ Len(loaded) < MaxLoads
  /\ loaded' = Append(loaded, Config)
  /\ UNCHANGED <<glob, selTheme, selRole, value>>

\* config.content[i]
ReadContent ==
  /\ loaded # <<>>
  /\ \E i \in 1..Len(Latest.content) :
        glob' = Latest.content[i]
  /\ UNCHANGED <<loaded, selTheme, selRole, value>>

\* config.daisyui.themes[i]: the entry's name selects its palette.
SelectTheme ==
  /\ loaded # <<>>
  /\ \E i \in 1..Len(Latest.daisyui.themes) :
        \E n \in DOMAIN Latest.daisyui.themes[i] :
           selTheme' = n
  /\ selRole' = ""
  /\ value'   = <<>>
  /\ UNCHANGED <<loaded, glob>>

\* config.daisyui.themes[i][name][role]
ReadRole ==
  /\ loaded # <<>>
  /\ selTheme \in ThemeNames(Latest)
  /\ \E r \in DOMAIN PaletteOf(Latest, selTheme) :
        /\ selRole' = r
        /\ value'   = PaletteOf(Latest, selTheme)[r]
  /\ UNCHANGED <<loaded, glob, selTheme>>

Next ==
  \/ Load
  \/ ReadContent
  \/ SelectTheme
  \/ ReadRole

Spec == Init /\ [][Next]_vars

----------------------------------------------------------------------------
(* Vocabulary of the properties.                                           *)

HexDigit ==
  { "0","1","2","3","4","5","6","7","8","9",
    "A","B","C","D","E","F","a","b","c","d","e","f" }

\* ^#[0-9A-Fa-f]{6}$
IsHexColor(v) ==
  /\ Len(v) = 7
  /\ v[1] = "#"
  /\ \A i \in 2..7 : v[i] \in HexDigit

\* The roles that carry a -content counterpart, and that counterpart.  The
\* three surface shades base-100, base-200 and base-300 are one family,
\* whose counterpart is base-content.
ContentCounterpart ==
     ("primary"   :> "primary-content")
  @@ ("secondary" :> "secondary-content")
  @@ ("accent"    :> "accent-content")
  @@ ("neutral"   :> "neutral-content")
  @@ ("base-100"  :> "base-content")
  @@ ("base-200"  :> "base-content")
  @@ ("base-300"  :> "base-content")

StatusRoles == { "info", "success", "warning", "error" }

RecognizedRoles ==
  DOMAIN ContentCounterpart
    \cup { ContentCounterpart[r] : r \in DOMAIN ContentCounterpart }
    \cup StatusRoles

SharedRoles ==
  { "primary", "secondary", "accent", "neutral",
    "primary-content", "secondary-content", "accent-content", "neutral-content" }

\* The palettes of a configuration, each with its name.
Palettes(c) ==
  UNION { { <<n, c.daisyui.themes[i][n]>> : n \in DOMAIN c.daisyui.themes[i] } :
             i \in 1..Len(c.daisyui.themes) }

\* The configurations obtained so far.
Loads == { loaded[k] : k \in 1..Len(loaded) }

TealBlue == <<"#","0","E","2","A","3","0">>

White == <<"#","F","9","F","9","F","9">>

----------------------------------------------------------------------------
\* C1: in every loaded configuration, every role of every palette has a
\* value of the form '#' followed by exactly six hexadecimal digits, and so
\* has every value read from a palette.
ColorsAreHex ==
  /\ \A c \in Loads : \A p \in Palettes(c) : \A r \in DOMAIN p[2] :
        IsHexColor(p[2][r])
  /\ selRole # "" => IsHexColor(value)

ColorsAreHexWitness ==
  /\ selTheme = "brand-teal-surface"
  /\ selRole = "base-200"
  /\ Len(value) = 7

\* C2: every palette of every loaded configuration defines every role of the
\* fixed enumeration: none is missing.
PalettesComplete ==
  \A c \in Loads : \A p \in Palettes(c) : RecognizedRoles \subseteq DOMAIN p[2]

PalettesCompleteWitness ==
  /\ Cardinality(RecognizedRoles) = 16
  /\ selTheme = "brand-teal-surface"
  /\ selRole = "base-content"

\* C3: every key of every palette is a recognized role, and so is every role
\* a read can select.
RolesRecognized ==
  /\ \A c \in Loads : \A p \in Palettes(c) : DOMAIN p[2] \subseteq RecognizedRoles
  /\ selRole # "" => selRole \in RecognizedRoles

RolesRecognizedWitness ==
  /\ selTheme = "brand-light"
  /\ selRole = "base-content"
  /\ value # <<>>

\* C4: themes holds exactly two entries, each entry has exactly one name key,
\* the names are pairwise distinct and are exactly "brand-light" and
\* "brand-teal-surface".
TwoNamedThemes ==
  /\ \A c \in Loads :
        LET t == c.daisyui.themes IN
        /\ Len(t) = 2
        /\ \A i \in 1..Len(t) : Cardinality(DOMAIN t[i]) = 1
        /\ \A i, j \in 1..Len(t) : i # j => DOMAIN t[i] \cap DOMAIN t[j] = {}
        /\ ThemeNames(c) = { "brand-light", "brand-teal-surface" }
  /\ selTheme # "" => selTheme \in { "brand-light", "brand-teal-surface" }

TwoNamedThemesWitness ==
  /\ loaded # <<>>
  /\ selTheme = "brand-teal-surface"
  /\ selRole = ""

\* C5: content holds exactly the two patterns and nothing else.
ContentIsTwoGlobs ==
  /\ \A c \in Loads :
        /\ Len(c.content) = 2
        /\ { c.content[i] : i \in 1..Len(c.content) }
              = { "./app/templates/**/*.html", "./app/static/**/*.js" }
  /\ glob # "" => glob \in { "./app/templates/**/*.html", "./app/static/**/*.js" }

ContentIsTwoGlobsWitness ==
  /\ loaded # <<>>
  /\ glob = "./app/static/**/*.js"

\* C6: in "brand-light", primary is #0E2A30 and base-100 is #F9F9F9.
BrandLightScenario ==
  /\ \A c \in Loads :
        /\ PaletteOf(c, "brand-light")["primary"]  = TealBlue
        /\ PaletteOf(c, "brand-light")["base-100"] = White
  /\ (selTheme = "brand-light" /\ selRole = "primary")  => value = TealBlue
  /\ (selTheme = "brand-light" /\ selRole = "base-100") => value = White

BrandLightScenarioWitness ==
  /\ selTheme = "brand-light"
  /\ selRole = "base-100"
  /\ value # TealBlue

\* C7: in "brand-teal-surface", base-100 is #0E2A30, which is the value of
\* primary in "brand-teal-surface" and in "brand-light".
TealSurfaceScenario ==
  /\ \A c \in Loads :
        /\ PaletteOf(c, "brand-teal-surface")["base-100"] = TealBlue
        /\ PaletteOf(c, "brand-teal-surface")["base-100"]
              = PaletteOf(c, "brand-teal-surface")["primary"]
        /\ PaletteOf(c, "brand-teal-surface")["base-100"]
              = PaletteOf(c, "brand-light")["primary"]
  /\ (selTheme = "brand-teal-surface" /\ selRole = "base-100") => value = TealBlue

TealSurfaceScenarioWitness ==
  /\ selTheme = "brand-teal-surface"
  /\ selRole = "base-100"
  /\ value = PaletteOf(Latest, "brand-light")["primary"]

\* C9: plugins holds exactly one plugin, daisyui, and theme.extend has no key.
OnePluginNoExtension ==
  \A c \in Loads :
     /\ Len(c.plugins) = 1
     /\ c.plugins[1] = "daisyui"
     /\ DOMAIN c.theme.extend = {}

OnePluginNoExtensionWitness ==
  /\ loaded # <<>>
  /\ Len(Latest.plugins) = 1
  /\ DOMAIN Latest.theme = { "extend" }

\* C10: the two palettes have the same 16 keys, agree on the brand roles and
\* their content roles, and differ on exactly the surface and status roles.
PalettesAgreeOnBrand ==
  \A c \in Loads :
     LET light == PaletteOf(c, "brand-light")
         teal  == PaletteOf(c, "brand-teal-surface")
     IN  /\ DOMAIN light = DOMAIN teal
         /\ Cardinality(DOMAIN light) = 16
         /\ \A r \in DOMAIN light : (light[r] = teal[r]) <=> (r \in SharedRoles)
         /\ DOMAIN light \ SharedRoles
               = { "base-100", "base-200", "base-300", "base-content",
                   "info", "success", "warning", "error" }

PalettesAgreeOnBrandWitness ==
  /\ selTheme = "brand-teal-surface"
  /\ selRole = "base-content"
  /\ value # PaletteOf(Latest, "brand-light")["base-content"]

====
